---------------------------- MODULE Spec2Model ----------------------------
(***************************************************************************)
(* Turbine flow-sensor firmware (cs347-sipsmart).                          *)
(*                                                                         *)
(* Three sketches are modelled, selected by the variable fw:               *)
(*   "ble"     src/flow_control/flow_control.ino  (BLE notify firmware)    *)
(*   "serial1" src/unnamed/part_000 lines   1-117 (serial driver + API)    *)
(*   "serial2" src/unnamed/part_000 lines 119-218 (serial driver, 2nd)     *)
(*                                                                         *)
(* float quantities are modelled as exact rationals <<n, d>> in lowest     *)
(* terms, extended with d = 0 for the IEEE results of a division by zero   *)
(* (<<1,0>> = +inf, <<-1,0>> = -inf, <<0,0>> = NaN); rounding of the       *)
(* 32-bit float format is not modelled.  millis() is an unsigned counter   *)
(* that wraps; its width is reduced from 32 to ClockBits bits.             *)
(***************************************************************************)
EXTENDS Integers, Sequences, FiniteSets, TLC

(***************************************************************************)
(* Bounds of the model.                                                    *)
(***************************************************************************)
\* width of the millisecond clock in the model (32 on the board)
ClockBits == 12
\* sensor edges in one run
MaxEdges == 2
\* sampling cycles completed in one run
MaxCycles == 2
\* extra milliseconds, in total, that delay() calls overrun their argument
MaxJitter == 1
\* calls of the accessors in one run
MaxCalls == 1
\* samples drawn for the flow calculator alone
MaxCalcSamples == 2

ClockMod == 2 ^ ClockBits

(***************************************************************************)
(* Program constants.                                                      *)
(***************************************************************************)
\* flow_control.ino:38  const unsigned long CALC_INTERVAL = 100;
BLE_CALC_INTERVAL == 100
\* part_000:25, part_000:143  const unsigned long CALC_INTERVAL = 1000;
SERIAL_CALC_INTERVAL == 1000
\* flow_control.ino:191  delay(50);
BLE_LOOP_DELAY == 50
\* part_000:91, part_000:217  delay(10);
SERIAL_LOOP_DELAY == 10
\* flow_control.ino:102  delay(300);
BLE_SETUP_DELAY == 300
\* part_000:38  delay(10);
SERIAL_WAIT_DELAY == 10
\* flow_control.ino:37, part_000:22  const float ML_PER_PULSE = 2.25;
ML_PER_PULSE == <<9, 4>>
\* flow_control.ino:35, part_000:20  float calibrationFactor = 5.0;
INITIAL_CALIBRATION == <<5, 1>>

(***************************************************************************)
(* float arithmetic, as exact extended rationals.                          *)
(***************************************************************************)
Abs(x) == IF x < 0 THEN -x ELSE x

Sign(x) == IF x < 0 THEN -1 ELSE IF x > 0 THEN 1 ELSE 0

RECURSIVE GCD(_, _)
GCD(a, b) == IF b = 0 THEN a ELSE GCD(b, a % b)

\* the value n/d in lowest terms with a non-negative denominator
Norm(n, d) ==
    IF d = 0 THEN <<Sign(n), 0>>
    ELSE LET g == GCD(Abs(n), Abs(d))
             s == Sign(d)
         IN  <<(s * n) \div g, (s * d) \div g>>

\* conversion of an unsigned long to float
FromInt(k) == <<k, 1>>

Zero == <<0, 1>>

IsFinite(a) == a[2] # 0

\* float division a / b (x/0 = +-inf, 0/0 = NaN, x/inf = 0)
FDiv(a, b) == Norm(a[1] * b[2], a[2] * b[1])

\* float multiplication a * b
FMul(a, b) ==
    IF a[2] = 0 \/ b[2] = 0
    THEN <<Sign(a[1]) * Sign(b[1]), 0>>
    ELSE Norm(a[1] * b[1], a[2] * b[2])

\* float addition a + b
FAdd(a, b) ==
    IF a[2] = 0 /\ b[2] = 0 THEN (IF a = b THEN a ELSE <<0, 0>>)
    ELSE IF a[2] = 0 THEN a
    ELSE IF b[2] = 0 THEN b
    ELSE Norm(a[1] * b[2] + b[1] * a[2], a[2] * b[2])

\* float comparison a > 0 (false for NaN)
FPositive(a) == a[1] > 0

\* float comparison a <= b on finite values
FLeq(a, b) == a[1] * b[2] <= b[1] * a[2]

(***************************************************************************)
(* State.                                                                  *)
(***************************************************************************)
VARIABLES
    fw,                 \* which sketch runs
    pc,                 \* position of the main context (setup, then loop)
    clock,              \* millis()
    \* globals of the sketch
    pulseCount, lastTime, flowRate, totalVolume, calibrationFactor,
    deviceConnected, pCharacteristic,
    \* locals of loop()
    currentTime, pulses, frequency, volumeThisInterval,
    \* hardware and collaborators
    attached,           \* pulseCounter is attached to the pin's interrupt
    intsEnabled,        \* interrupts are enabled on the CPU
    consoleReady,       \* the serial console is open (bool(Serial)): the host
                        \* has it open when the board boots, or never opens it
    printed,            \* pulse count of the last "Pulses:" line
    call,               \* the accessor call just made, with its argument or
                        \* return value; <<>> once loop() runs again
    payload,            \* fields of the last BLE notification, <<>> if none
    sent,               \* notifications sent in the current loop iteration
    \* history variables
    edges,              \* sensor edges so far
    dropped,            \* edges for which pulseCounter did not run
    drained,            \* value returned by the last drain
    drainedSum,         \* sum of the values returned by all drains
    sinceDrain,         \* edges handled since the last drain's read
    windowEdges,        \* edges handled between the last two drains' reads
    accPulses,          \* pulses drained since the last volume reset
    cycles,             \* sampling cycles completed
    jitterUsed,         \* milliseconds of overrun so far
    calls,              \* accessor calls so far
    sinceLast           \* real milliseconds since the millis() read whose
                        \* value lastTime holds (the body of loop() takes no
                        \* time; not counted while setup() waits for the
                        \* console)

globals == <<lastTime, flowRate, totalVolume, calibrationFactor>>
bleVars == <<deviceConnected, pCharacteristic, payload, sent>>
locals  == <<currentTime, pulses, frequency, volumeThisInterval>>
hwVars  == <<attached, intsEnabled, consoleReady, printed>>
apiVars == <<call>>
counts  == <<edges, dropped, drained, drainedSum, sinceDrain, windowEdges,
            accPulses, cycles>>
timeVars == <<clock, jitterUsed, calls, sinceLast>>

vars == <<fw, pc, pulseCount, globals, bleVars, locals, hwVars, apiVars, counts,
          timeVars>>

Sketches == {"ble", "serial1", "serial2"}

IsSerial == fw \in {"serial1", "serial2"}

\* the subtraction done on signed values: negative once the clock has wrapped
ElapsedSigned(now, last) == now - last

\* unsigned subtraction currentTime - lastTime
Elapsed(now, last) == ((now - last) + ClockMod) % ClockMod

\* globals as initialised at their declarations, before setup() runs
Init ==
    /\ fw \in Sketches
    /\ pc = "s_begin"
    /\ clock = 0
    /\ pulseCount = 0
    /\ lastTime = 0
    /\ flowRate = Zero
    /\ totalVolume = Zero
    /\ calibrationFactor = INITIAL_CALIBRATION
    /\ deviceConnected = FALSE
    /\ pCharacteristic = FALSE
    /\ currentTime = 0
    /\ pulses = 0
    /\ frequency = Zero
    /\ volumeThisInterval = Zero
    /\ attached = FALSE
    /\ intsEnabled = TRUE
    /\ consoleReady \in BOOLEAN
    /\ printed = 0
    /\ call = <<>>
    /\ payload = <<>>
    /\ sent = 0
    /\ edges = 0
    /\ dropped = 0
    /\ drained = 0
    /\ drainedSum = 0
    /\ sinceDrain = 0
    /\ windowEdges = 0
    /\ accPulses = 0
    /\ cycles = 0
    /\ jitterUsed = 0
    /\ calls = 0
    /\ sinceLast = 0

(***************************************************************************)
(* Time: delay(ms) returns after ms milliseconds or a little more.         *)
(***************************************************************************)
\* a delay() that returns 30 ms late every time
DelayOversleeping(ms) ==
    /\ clock' = (clock + ms + 30) % ClockMod
    /\ sinceLast' = sinceLast + ms + 30
    /\ UNCHANGED <<jitterUsed, calls>>

Delay(ms) ==
    \E j \in 0 .. (MaxJitter - jitterUsed) :
        /\ clock' = (clock + ms + j) % ClockMod
        /\ jitterUsed' = jitterUsed + j
        /\ sinceLast' = sinceLast + ms + j
        /\ calls' = calls


(***************************************************************************)
(* The sensor.  pulseCounter is the interrupt handler of both sketches; it *)
(* runs once per falling edge while it is attached and interrupts are      *)
(* enabled.  An edge that arrives inside the noInterrupts() section is     *)
(* held by the interrupt controller and its handler run is the             *)
(* pulseCounter step taken after interrupts().                             *)
(***************************************************************************)
pulseCounter ==
    /\ attached
    /\ intsEnabled
    /\ edges < MaxEdges
    /\ pulseCount' = pulseCount + 1
    /\ edges' = edges + 1
    /\ sinceDrain' = sinceDrain + 1
    /\ UNCHANGED <<fw, pc, globals, bleVars, locals, hwVars, apiVars, timeVars>>
    /\ UNCHANGED <<dropped, drained, drainedSum, windowEdges, accPulses, cycles>>

\* a falling edge between loop()'s detachInterrupt and its attachInterrupt:
\* no handler runs and nothing records the edge
EdgeWhileDetached ==
    /\ ~attached
    /\ pc \in {"l_freq", "l_vol", "l_print", "l_reset", "l_attach"}
    /\ edges < MaxEdges
    /\ edges' = edges + 1
    /\ dropped' = dropped + 1
    /\ UNCHANGED <<fw, pc, pulseCount, globals, bleVars, locals, hwVars, apiVars, timeVars>>
    /\ UNCHANGED <<drained, drainedSum, sinceDrain, windowEdges, accPulses, cycles>>

(***************************************************************************)
(* flow_control.ino: BLE server callbacks.                                 *)
(***************************************************************************)
onConnect ==
    /\ fw = "ble"
    /\ pCharacteristic
    /\ ~deviceConnected
    /\ deviceConnected' = TRUE
    /\ UNCHANGED <<fw, pc, pulseCount, globals, locals, hwVars, apiVars, counts, timeVars>>
    /\ UNCHANGED <<pCharacteristic, payload, sent>>

onDisconnect ==
    /\ fw = "ble"
    /\ deviceConnected
    /\ deviceConnected' = FALSE
    /\ UNCHANGED <<fw, pc, pulseCount, globals, locals, hwVars, apiVars, counts, timeVars>>
    /\ UNCHANGED <<pCharacteristic, payload, sent>>

(***************************************************************************)
(* flow_control.ino: setup().                                              *)
(***************************************************************************)
\* Serial.begin(115200); delay(300); the banner; pinMode
BleSetupBegin ==
    /\ fw = "ble"
    /\ pc = "s_begin"
    /\ Delay(BLE_SETUP_DELAY)
    /\ pc' = "s_attach"
    /\ UNCHANGED <<fw, pulseCount, globals, bleVars, locals, hwVars, apiVars, counts>>

\* attachInterrupt(digitalPinToInterrupt(FLOW_SENSOR_PIN), pulseCounter, FALLING)
BleSetupAttach ==
    /\ fw = "ble"
    /\ pc = "s_attach"
    /\ attached' = TRUE
    /\ pc' = "s_ble"
    /\ UNCHANGED <<fw, pulseCount, globals, bleVars, locals, apiVars, counts, timeVars>>
    /\ UNCHANGED <<intsEnabled, consoleReady, printed>>

\* setupBLE(): the server, the service and its characteristic, advertising
setupBLE ==
    /\ fw = "ble"
    /\ pc = "s_ble"
    /\ pCharacteristic' = TRUE
    /\ pc' = "s_last"
    /\ UNCHANGED <<fw, pulseCount, globals, locals, hwVars, apiVars, counts, timeVars>>
    /\ UNCHANGED <<deviceConnected, payload, sent>>

\* lastTime = millis()
BleSetupLast ==
    /\ fw = "ble"
    /\ pc = "s_last"
    /\ lastTime' = clock
    /\ sinceLast' = 0
    /\ pc' = "l_top"
    /\ UNCHANGED <<fw, pulseCount, bleVars, locals, hwVars, apiVars, counts>>
    /\ UNCHANGED <<clock, jitterUsed, calls>>
    /\ UNCHANGED <<flowRate, totalVolume, calibrationFactor>>

(***************************************************************************)
(* flow_control.ino: loop().                                               *)
(***************************************************************************)
\* loop() without its if: the sampling cycle runs in every iteration
BleLoopTopUnguarded ==
    /\ fw = "ble"
    /\ pc = "l_top"
    /\ cycles < MaxCycles
    /\ currentTime' = clock
    /\ sent' = 0
    /\ pc' = "l_noint"
    /\ UNCHANGED <<fw, pulseCount, globals, hwVars, apiVars, counts, timeVars>>
    /\ UNCHANGED <<pulses, frequency, volumeThisInterval>>
    /\ UNCHANGED <<deviceConnected, pCharacteristic, payload>>

\* unsigned long currentTime = millis();
\* if (currentTime - lastTime >= CALC_INTERVAL): the condition holds
BleLoopTop ==
    /\ fw = "ble"
    /\ pc = "l_top"
    /\ cycles < MaxCycles
    /\ Elapsed(clock, lastTime) >= BLE_CALC_INTERVAL
    /\ currentTime' = clock
    /\ sent' = 0
    /\ pc' = "l_noint"
    /\ UNCHANGED <<fw, pulseCount, globals, hwVars, apiVars, counts, timeVars>>
    /\ UNCHANGED <<pulses, frequency, volumeThisInterval>>
    /\ UNCHANGED <<deviceConnected, pCharacteristic, payload>>

\* an iteration of loop() whose condition fails: millis(), the comparison,
\* delay(50)
BleLoopSkip ==
    /\ fw = "ble"
    /\ pc = "l_top"
    /\ cycles < MaxCycles
    /\ Elapsed(clock, lastTime) < BLE_CALC_INTERVAL
    /\ currentTime' = clock
    /\ sent' = 0
    /\ Delay(BLE_LOOP_DELAY)
    /\ UNCHANGED <<fw, pc, pulseCount, globals, hwVars, apiVars, counts>>
    /\ UNCHANGED <<pulses, frequency, volumeThisInterval>>
    /\ UNCHANGED <<deviceConnected, pCharacteristic, payload>>

\* loop() without its noInterrupts(): the handler stays enabled during the drain
BleNoInterruptsOmitted ==
    /\ fw = "ble"
    /\ pc = "l_noint"
    /\ pc' = "l_read"
    /\ UNCHANGED <<fw, pulseCount, globals, bleVars, locals, hwVars, apiVars, counts,
                   timeVars>>

\* noInterrupts();
BleNoInterrupts ==
    /\ fw = "ble"
    /\ pc = "l_noint"
    /\ intsEnabled' = FALSE
    /\ pc' = "l_read"
    /\ UNCHANGED <<fw, pulseCount, globals, bleVars, locals, apiVars, counts, timeVars>>
    /\ UNCHANGED <<attached, consoleReady, printed>>

\* unsigned long pulses = pulseCount;
BleReadPulses ==
    /\ fw = "ble"
    /\ pc = "l_read"
    /\ pulses' = pulseCount
    /\ windowEdges' = sinceDrain
    /\ sinceDrain' = 0
    /\ pc' = "l_clear"
    /\ UNCHANGED <<fw, pulseCount, globals, bleVars, hwVars, apiVars, timeVars>>
    /\ UNCHANGED <<currentTime, frequency, volumeThisInterval>>
    /\ UNCHANGED <<edges, dropped, drained, drainedSum, accPulses, cycles>>

\* loop() without its pulseCount = 0: the drain reads and does not reset
BleClearPulsesOmitted ==
    /\ fw = "ble"
    /\ pc = "l_clear"
    /\ drained' = pulses
    /\ drainedSum' = drainedSum + pulses
    /\ accPulses' = accPulses + pulses
    /\ pc' = "l_int"
    /\ UNCHANGED <<fw, pulseCount, globals, bleVars, locals, hwVars, apiVars,
                   timeVars>>
    /\ UNCHANGED <<edges, dropped, sinceDrain, windowEdges, cycles>>

\* pulseCount = 0;   (the drain returns pulses)
BleClearPulses ==
    /\ fw = "ble"
    /\ pc = "l_clear"
    /\ pulseCount' = 0
    /\ drained' = pulses
    /\ drainedSum' = drainedSum + pulses
    /\ accPulses' = accPulses + pulses
    /\ pc' = "l_int"
    /\ UNCHANGED <<fw, globals, bleVars, locals, hwVars, apiVars, timeVars>>
    /\ UNCHANGED <<edges, dropped, sinceDrain, windowEdges, cycles>>

\* interrupts();
BleInterrupts ==
    /\ fw = "ble"
    /\ pc = "l_int"
    /\ intsEnabled' = TRUE
    /\ pc' = "l_calc"
    /\ UNCHANGED <<fw, pulseCount, globals, bleVars, locals, apiVars, counts, timeVars>>
    /\ UNCHANGED <<attached, consoleReady, printed>>

\* the elapsed time left in milliseconds: the division by 1000 forgotten
ElapsedMilliseconds(now, last) == FromInt(Elapsed(now, last))

\* float elapsedSeconds = (currentTime - lastTime) / 1000.0f;
ElapsedSeconds(now, last) == FDiv(FromInt(Elapsed(now, last)), FromInt(1000))

\* float frequency = (elapsedSeconds > 0) ? (pulses / elapsedSeconds) : 0.0f;
BleFrequency(n, elapsedSeconds) ==
    IF FPositive(elapsedSeconds) THEN FDiv(FromInt(n), elapsedSeconds) ELSE Zero

\* the operands of the division swapped
FlowRateInverted(freq, factor) == FDiv(factor, freq)

\* the division by the factor of the declaration, whatever was set since
FlowRateDefaultFactor(freq, factor) == FDiv(freq, INITIAL_CALIBRATION)

\* flowRate = frequency / calibrationFactor;
FlowRateOf(freq, factor) == FDiv(freq, factor)

\* the conversion from mL to L forgotten
VolumeLitersUnscaled(n) == FMul(FromInt(n), ML_PER_PULSE)

\* (pulses * ML_PER_PULSE) / 1000.0f
VolumeLiters(n) == FDiv(FMul(FromInt(n), ML_PER_PULSE), FromInt(1000))

\* float volumeThisInterval_mL = volumeThisInterval_L * 1000.0f;
VolumeMilliliters(liters) == FMul(liters, FromInt(1000))

\* "=" written for "+=": the total is overwritten by the interval's volume
AccumulateOverwrite(total, liters) == liters

\* totalVolume += volumeThisInterval_L;
Accumulate(total, liters) == FAdd(total, liters)

\* the calculation of one sample, from elapsedSeconds to totalVolume
BleCalc ==
    /\ fw = "ble"
    /\ pc = "l_calc"
    /\ frequency' = BleFrequency(pulses, ElapsedSeconds(currentTime, lastTime))
    /\ flowRate' = FlowRateOf(frequency', calibrationFactor)
    /\ volumeThisInterval' = VolumeLiters(pulses)
    /\ totalVolume' = Accumulate(totalVolume, volumeThisInterval')
    /\ pc' = "l_report"
    /\ UNCHANGED <<fw, pulseCount, bleVars, hwVars, apiVars, counts, timeVars>>
    /\ UNCHANGED <<lastTime, calibrationFactor, currentTime, pulses>>

\* the text printf("%.<digits>f", x) writes: <<digits, u>> stands for the
\* decimal numeral of u * 10^-digits, u being x * 10^digits rounded to the
\* nearest integer (a tie of the exact value goes up; the rounding error of
\* the float, which decides such a tie on the board, is not modelled);
\* <<-1, s>> for the texts of the non-finite values, "inf" (s = 1), "-inf"
\* (s = -1), "nan" (s = 0)
Fixed(x, digits) ==
    IF x[2] = 0 THEN <<-1, x[1]>>
    ELSE <<digits, (2 * x[1] * (10 ^ digits) + x[2]) \div (2 * x[2])>>

\* the payload with its second and third arguments exchanged
BlePayloadRateFirst == <<pulses, Fixed(flowRate, 2), Fixed(frequency, 3),
                         Fixed(VolumeMilliliters(volumeThisInterval), 2),
                         Fixed(totalVolume, 4)>>

\* snprintf(payload, sizeof(payload), "%lu,%.2f,%.3f,%.2f,%.4f", pulses,
\*          frequency, flowRate, volumeThisInterval_mL, totalVolume);
\* the comma-separated fields, in order
BlePayload == <<pulses, Fixed(frequency, 2), Fixed(flowRate, 3),
                Fixed(VolumeMilliliters(volumeThisInterval), 2),
                Fixed(totalVolume, 4)>>

\* a report that returns from loop() when no peer is connected, before
\* lastTime = currentTime
BleReportReturningEarly ==
    /\ fw = "ble"
    /\ pc = "l_report"
    /\ printed' = pulses
    /\ IF deviceConnected /\ pCharacteristic
       THEN /\ payload' = BlePayload
            /\ sent' = sent + 1
            /\ pc' = "l_last"
       ELSE /\ UNCHANGED <<payload, sent>>
            /\ pc' = "l_top"
    /\ UNCHANGED <<fw, pulseCount, globals, locals, apiVars, counts, timeVars>>
    /\ UNCHANGED <<deviceConnected, pCharacteristic>>
    /\ UNCHANGED <<attached, intsEnabled, consoleReady>>

\* the Serial report, then: if (deviceConnected && pCharacteristic) notify
BleReport ==
    /\ fw = "ble"
    /\ pc = "l_report"
    /\ printed' = pulses
    /\ IF deviceConnected /\ pCharacteristic
       THEN /\ payload' = BlePayload
            /\ sent' = sent + 1
       ELSE UNCHANGED <<payload, sent>>
    /\ pc' = "l_last"
    /\ UNCHANGED <<fw, pulseCount, globals, locals, apiVars, counts, timeVars>>
    /\ UNCHANGED <<deviceConnected, pCharacteristic>>
    /\ UNCHANGED <<attached, intsEnabled, consoleReady>>

\* lastTime = currentTime;
BleSetLast ==
    /\ fw = "ble"
    /\ pc = "l_last"
    /\ lastTime' = currentTime
    /\ sinceLast' = 0
    /\ cycles' = cycles + 1
    /\ pc' = "l_delay"
    /\ UNCHANGED <<fw, pulseCount, bleVars, locals, hwVars, apiVars>>
    /\ UNCHANGED <<clock, jitterUsed, calls>>
    /\ UNCHANGED <<flowRate, totalVolume, calibrationFactor>>
    /\ UNCHANGED <<edges, dropped, drained, drainedSum, sinceDrain, windowEdges,
                   accPulses>>

\* delay(50); at the end of an iteration that ran the calculation
BleDelay ==
    /\ fw = "ble"
    /\ pc = "l_delay"
    /\ Delay(BLE_LOOP_DELAY)
    /\ pc' = "l_top"
    /\ UNCHANGED <<fw, pulseCount, globals, bleVars, locals, hwVars, apiVars, counts>>

(***************************************************************************)
(* part_000: setup() of the serial driver (both sketches).                 *)
(***************************************************************************)
\* while (!Serial) { delay(10); }
SerialSetupWait ==
    /\ IsSerial
    /\ pc = "s_begin"
    /\ ~consoleReady
    /\ clock' = (clock + SERIAL_WAIT_DELAY) % ClockMod
    /\ UNCHANGED <<fw, pc, pulseCount, globals, bleVars, locals, hwVars, apiVars,
                   counts, jitterUsed, calls, sinceLast>>

\* the banner, pinMode, attachInterrupt(..., pulseCounter, FALLING)
SerialSetupAttach ==
    /\ IsSerial
    /\ pc = "s_begin"
    /\ consoleReady
    /\ attached' = TRUE
    /\ pc' = "s_last"
    /\ UNCHANGED <<fw, pulseCount, globals, bleVars, locals, apiVars, counts,
                   timeVars>>
    /\ UNCHANGED <<intsEnabled, consoleReady, printed>>

\* lastTime = millis();
SerialSetupLast ==
    /\ IsSerial
    /\ pc = "s_last"
    /\ lastTime' = clock
    /\ sinceLast' = 0
    /\ pc' = "l_top"
    /\ UNCHANGED <<fw, pulseCount, bleVars, locals, hwVars, apiVars, counts>>
    /\ UNCHANGED <<clock, jitterUsed, calls>>
    /\ UNCHANGED <<flowRate, totalVolume, calibrationFactor>>

(***************************************************************************)
(* part_000: loop() of the serial driver.  The two sketches differ in that *)
(* the second names elapsedSeconds and prints the frequency.               *)
(***************************************************************************)
\* loop() without its if: the sampling cycle runs in every iteration
SerialLoopTopUnguarded ==
    /\ IsSerial
    /\ pc = "l_top"
    /\ cycles < MaxCycles
    /\ currentTime' = clock
    /\ call' = <<>>
    /\ pc' = "l_detach"
    /\ UNCHANGED <<fw, pulseCount, globals, bleVars, hwVars, counts, timeVars>>
    /\ UNCHANGED <<pulses, frequency, volumeThisInterval>>

\* unsigned long currentTime = millis();
\* if (currentTime - lastTime >= CALC_INTERVAL): the condition holds
SerialLoopTop ==
    /\ IsSerial
    /\ pc = "l_top"
    /\ cycles < MaxCycles
    /\ Elapsed(clock, lastTime) >= SERIAL_CALC_INTERVAL
    /\ currentTime' = clock
    /\ call' = <<>>
    /\ pc' = "l_detach"
    /\ UNCHANGED <<fw, pulseCount, globals, bleVars, hwVars, counts, timeVars>>
    /\ UNCHANGED <<pulses, frequency, volumeThisInterval>>

\* an iteration of loop() whose condition fails: millis(), the comparison,
\* delay(10)
SerialLoopSkip ==
    /\ IsSerial
    /\ pc = "l_top"
    /\ cycles < MaxCycles
    /\ Elapsed(clock, lastTime) < SERIAL_CALC_INTERVAL
    /\ currentTime' = clock
    /\ call' = <<>>
    /\ Delay(SERIAL_LOOP_DELAY)
    /\ UNCHANGED <<fw, pc, pulseCount, globals, bleVars, hwVars, counts>>
    /\ UNCHANGED <<pulses, frequency, volumeThisInterval>>

\* loop() without its detachInterrupt: the handler stays attached in the cycle
SerialDetachOmitted ==
    /\ IsSerial
    /\ pc = "l_detach"
    /\ pc' = "l_freq"
    /\ UNCHANGED <<fw, pulseCount, globals, bleVars, locals, hwVars, apiVars,
                   counts, timeVars>>

\* detachInterrupt(digitalPinToInterrupt(FLOW_SENSOR_PIN));
SerialDetach ==
    /\ IsSerial
    /\ pc = "l_detach"
    /\ attached' = FALSE
    /\ pc' = "l_freq"
    /\ UNCHANGED <<fw, pulseCount, globals, bleVars, locals, apiVars, counts,
                   timeVars>>
    /\ UNCHANGED <<intsEnabled, consoleReady, printed>>

\* float frequency = pulseCount / ((currentTime - lastTime) / 1000.0);
SerialFrequency(n, elapsedSeconds) == FDiv(FromInt(n), elapsedSeconds)

\* frequency, then flowRate = frequency / calibrationFactor;
SerialFreq ==
    /\ IsSerial
    /\ pc = "l_freq"
    /\ frequency' = SerialFrequency(pulseCount,
                                    ElapsedSeconds(currentTime, lastTime))
    /\ flowRate' = FlowRateOf(frequency', calibrationFactor)
    /\ pc' = "l_vol"
    /\ UNCHANGED <<fw, pulseCount, bleVars, hwVars, apiVars, counts, timeVars>>
    /\ UNCHANGED <<lastTime, totalVolume, calibrationFactor>>
    /\ UNCHANGED <<currentTime, pulses, volumeThisInterval>>

\* float volumeThisSecond = (pulseCount * ML_PER_PULSE) / 1000.0;
\* totalVolume += volumeThisSecond;
SerialVolume ==
    /\ IsSerial
    /\ pc = "l_vol"
    /\ volumeThisInterval' = VolumeLiters(pulseCount)
    /\ totalVolume' = Accumulate(totalVolume, volumeThisInterval')
    /\ pc' = "l_print"
    /\ UNCHANGED <<fw, pulseCount, bleVars, hwVars, apiVars, counts, timeVars>>
    /\ UNCHANGED <<lastTime, flowRate, calibrationFactor>>
    /\ UNCHANGED <<currentTime, pulses, frequency>>

\* Serial.print("Pulses: "); Serial.println(pulseCount); and the other lines
SerialPrint ==
    /\ IsSerial
    /\ pc = "l_print"
    /\ printed' = pulseCount
    /\ pc' = "l_reset"
    /\ UNCHANGED <<fw, pulseCount, globals, bleVars, locals, apiVars, counts,
                   timeVars>>
    /\ UNCHANGED <<attached, intsEnabled, consoleReady>>

\* pulseCount = 0; lastTime = currentTime;
SerialClear ==
    /\ IsSerial
    /\ pc = "l_reset"
    /\ pulseCount' = 0
    /\ lastTime' = currentTime
    /\ sinceLast' = 0
    /\ drained' = pulseCount
    /\ drainedSum' = drainedSum + pulseCount
    /\ accPulses' = accPulses + pulseCount
    /\ windowEdges' = sinceDrain
    /\ sinceDrain' = 0
    /\ cycles' = cycles + 1
    /\ pc' = "l_attach"
    /\ UNCHANGED <<fw, bleVars, locals, hwVars, apiVars>>
    /\ UNCHANGED <<clock, jitterUsed, calls>>
    /\ UNCHANGED <<flowRate, totalVolume, calibrationFactor>>
    /\ UNCHANGED <<edges, dropped>>

\* attachInterrupt(digitalPinToInterrupt(FLOW_SENSOR_PIN), pulseCounter, FALLING);
SerialAttach ==
    /\ IsSerial
    /\ pc = "l_attach"
    /\ attached' = TRUE
    /\ pc' = "l_delay"
    /\ UNCHANGED <<fw, pulseCount, globals, bleVars, locals, apiVars, counts,
                   timeVars>>
    /\ UNCHANGED <<intsEnabled, consoleReady, printed>>

\* delay(10); at the end of an iteration that ran the calculation
SerialDelay ==
    /\ IsSerial
    /\ pc = "l_delay"
    /\ Delay(SERIAL_LOOP_DELAY)
    /\ pc' = "l_top"
    /\ UNCHANGED <<fw, pulseCount, globals, bleVars, locals, hwVars, apiVars,
                   counts>>

(***************************************************************************)
(* part_000 lines 94-117: the accessors of the first sketch.  The sketch   *)
(* has one thread of control, so a call runs between two iterations of     *)
(* loop().                                                                 *)
(***************************************************************************)
\* arguments tried for setCalibrationFactor
Factors == {<<-2, 1>>, <<0, 1>>, <<10, 1>>}

ApiCallable == fw = "serial1" /\ pc = "l_top" /\ calls < MaxCalls

\* a getFlowRate() that returns the other global
getFlowRateReturningTotal ==
    /\ ApiCallable
    /\ calls' = calls + 1
    /\ UNCHANGED <<clock, jitterUsed, sinceLast>>
    /\ call' = <<"getFlowRate", totalVolume>>
    /\ UNCHANGED <<fw, pc, pulseCount, globals, bleVars, locals, hwVars, counts>>

\* float getFlowRate() { return flowRate; }
getFlowRate ==
    /\ ApiCallable
    /\ calls' = calls + 1
    /\ UNCHANGED <<clock, jitterUsed, sinceLast>>
    /\ call' = <<"getFlowRate", flowRate>>
    /\ UNCHANGED <<fw, pc, pulseCount, globals, bleVars, locals, hwVars, counts>>

\* float getTotalVolume() { return totalVolume; }
getTotalVolume ==
    /\ ApiCallable
    /\ calls' = calls + 1
    /\ UNCHANGED <<clock, jitterUsed, sinceLast>>
    /\ call' = <<"getTotalVolume", totalVolume>>
    /\ UNCHANGED <<fw, pc, pulseCount, globals, bleVars, locals, hwVars, counts>>

\* a reset that clears the rate as well as the total
resetTotalVolumeAndRate ==
    /\ ApiCallable
    /\ calls' = calls + 1
    /\ UNCHANGED <<clock, jitterUsed, sinceLast>>
    /\ totalVolume' = Zero
    /\ flowRate' = Zero
    /\ call' = <<"resetTotalVolume">>
    /\ accPulses' = 0
    /\ UNCHANGED <<fw, pc, pulseCount, bleVars, locals, hwVars>>
    /\ UNCHANGED <<lastTime, calibrationFactor>>
    /\ UNCHANGED <<edges, dropped, drained, drainedSum, sinceDrain, windowEdges,
                   cycles>>

\* void resetTotalVolume() { totalVolume = 0.0; ... }
resetTotalVolume ==
    /\ ApiCallable
    /\ calls' = calls + 1
    /\ UNCHANGED <<clock, jitterUsed, sinceLast>>
    /\ totalVolume' = Zero
    /\ call' = <<"resetTotalVolume">>
    /\ accPulses' = 0
    /\ UNCHANGED <<fw, pc, pulseCount, bleVars, locals, hwVars>>
    /\ UNCHANGED <<lastTime, flowRate, calibrationFactor>>
    /\ UNCHANGED <<edges, dropped, drained, drainedSum, sinceDrain, windowEdges,
                   cycles>>

\* a setter that restarts the total along with the new factor
setCalibrationFactorResetting(factor) ==
    /\ ApiCallable
    /\ calls' = calls + 1
    /\ UNCHANGED <<clock, jitterUsed, sinceLast>>
    /\ calibrationFactor' = factor
    /\ totalVolume' = Zero
    /\ call' = <<"setCalibrationFactor", factor>>
    /\ UNCHANGED <<fw, pc, pulseCount, bleVars, locals, hwVars, counts>>
    /\ UNCHANGED <<lastTime, flowRate>>

\* void setCalibrationFactor(float factor) { calibrationFactor = factor; ... }
setCalibrationFactor(factor) ==
    /\ ApiCallable
    /\ calls' = calls + 1
    /\ UNCHANGED <<clock, jitterUsed, sinceLast>>
    /\ calibrationFactor' = factor
    /\ call' = <<"setCalibrationFactor", factor>>
    /\ UNCHANGED <<fw, pc, pulseCount, bleVars, locals, hwVars, counts>>
    /\ UNCHANGED <<lastTime, flowRate, totalVolume>>

(***************************************************************************)
(* The firmware with its environment.                                      *)
(***************************************************************************)
Next ==
    \/ pulseCounter
    \/ EdgeWhileDetached
    \/ onConnect
    \/ onDisconnect
    \/ BleSetupBegin
    \/ BleSetupAttach
    \/ setupBLE
    \/ BleSetupLast
    \/ BleLoopTop
    \/ BleLoopSkip
    \/ BleNoInterrupts
    \/ BleReadPulses
    \/ BleClearPulses
    \/ BleInterrupts
    \/ BleCalc
    \/ BleReport
    \/ BleSetLast
    \/ BleDelay
    \/ SerialSetupWait
    \/ SerialSetupAttach
    \/ SerialSetupLast
    \/ SerialLoopTop
    \/ SerialLoopSkip
    \/ SerialDetach
    \/ SerialFreq
    \/ SerialVolume
    \/ SerialPrint
    \/ SerialClear
    \/ SerialAttach
    \/ SerialDelay
    \/ getFlowRate
    \/ getTotalVolume
    \/ resetTotalVolume
    \/ \E factor \in Factors : setCalibrationFactor(factor)

Spec == Init /\ [][Next]_vars

\* the steps of the main context: setup(), then loop() called again and again
Main ==
    \/ BleSetupBegin
    \/ BleSetupAttach
    \/ setupBLE
    \/ BleSetupLast
    \/ BleLoopTop
    \/ BleLoopSkip
    \/ BleNoInterrupts
    \/ BleReadPulses
    \/ BleClearPulses
    \/ BleInterrupts
    \/ BleCalc
    \/ BleReport
    \/ BleSetLast
    \/ BleDelay
    \/ SerialSetupWait
    \/ SerialSetupAttach
    \/ SerialSetupLast
    \/ SerialLoopTop
    \/ SerialLoopSkip
    \/ SerialDetach
    \/ SerialFreq
    \/ SerialVolume
    \/ SerialPrint
    \/ SerialClear
    \/ SerialAttach
    \/ SerialDelay

\* the processor keeps running the main context and every delay() returns;
\* edges, peers and accessor calls may or may not come
SpecLive == Spec /\ WF_vars(Main)

(***************************************************************************)
(* flow_control.ino alone, with its sensor and its BLE peer.               *)
(***************************************************************************)
InitBle == Init /\ fw = "ble"

NextBle ==
    \/ pulseCounter
    \/ onConnect
    \/ onDisconnect
    \/ BleSetupBegin
    \/ BleSetupAttach
    \/ setupBLE
    \/ BleSetupLast
    \/ BleLoopTop
    \/ BleLoopSkip
    \/ BleNoInterrupts
    \/ BleReadPulses
    \/ BleClearPulses
    \/ BleInterrupts
    \/ BleCalc
    \/ BleReport
    \/ BleSetLast
    \/ BleDelay

SpecBle == InitBle /\ [][NextBle]_vars

(***************************************************************************)
(* The flow calculator of flow_control.ino on its own: the iterations of   *)
(* loop() up to the end of a drain are replaced by one step that draws     *)
(* what they produce, an elapsed time that passes the guard and the number *)
(* of pulses drained.                                                      *)
(***************************************************************************)
\* pulse counts drawn
CalcPulses == {0, 1, 30, 50}

\* elapsed milliseconds drawn, each >= CALC_INTERVAL
CalcElapsed == {100, 101, 150, 1000}

\* the state setup() leaves
InitCalc ==
    /\ fw = "ble"
    /\ pc = "l_top"
    /\ clock = BLE_SETUP_DELAY
    /\ pulseCount = 0
    /\ lastTime = BLE_SETUP_DELAY
    /\ flowRate = Zero
    /\ totalVolume = Zero
    /\ calibrationFactor = INITIAL_CALIBRATION
    /\ deviceConnected = FALSE
    /\ pCharacteristic = TRUE
    /\ currentTime = 0
    /\ pulses = 0
    /\ frequency = Zero
    /\ volumeThisInterval = Zero
    /\ attached = TRUE
    /\ intsEnabled = TRUE
    /\ consoleReady \in BOOLEAN
    /\ printed = 0
    /\ call = <<>>
    /\ payload = <<>>
    /\ sent = 0
    /\ edges = 0
    /\ dropped = 0
    /\ drained = 0
    /\ drainedSum = 0
    /\ sinceDrain = 0
    /\ windowEdges = 0
    /\ accPulses = 0
    /\ cycles = 0
    /\ jitterUsed = 0
    /\ calls = 0
    /\ sinceLast = 0

\* loop() from millis() to interrupts(): ms milliseconds after lastTime the
\* guard passes and the drain returns n pulses
CalcSample ==
    /\ fw = "ble"
    /\ pc \in {"l_top", "l_delay"}
    /\ cycles < MaxCalcSamples
    /\ \E ms \in CalcElapsed, n \in CalcPulses :
        /\ ms >= BLE_CALC_INTERVAL
        /\ clock' = (lastTime + ms) % ClockMod
        /\ sinceLast' = ms
        /\ currentTime' = clock'
        /\ pulses' = n
        /\ edges' = edges + n
        /\ windowEdges' = n
        /\ drained' = n
        /\ drainedSum' = drainedSum + n
        /\ accPulses' = accPulses + n
    /\ pulseCount' = 0
    /\ sent' = 0
    /\ pc' = "l_calc"
    /\ UNCHANGED <<fw, globals, hwVars, apiVars, jitterUsed, calls>>
    /\ UNCHANGED <<frequency, volumeThisInterval>>
    /\ UNCHANGED <<deviceConnected, pCharacteristic, payload>>
    /\ UNCHANGED <<dropped, sinceDrain, cycles>>

NextCalc ==
    \/ CalcSample
    \/ BleCalc
    \/ BleReport
    \/ BleSetLast

SpecCalc == InitCalc /\ [][NextCalc]_vars

(***************************************************************************)
(* The three loops when the millisecond clock is about to wrap: the run    *)
(* starts at the end of a sampling cycle that took place shortly before    *)
(* the clock's maximum, the history variables starting anew.               *)
(***************************************************************************)
\* milliseconds before the wrap at which that cycle read the clock
WrapBack == {1, 60, 100, 1000}

\* loop() has just assigned lastTime = currentTime (and re-attached the
\* handler); no water has flowed so far
InitWrap ==
    /\ fw \in Sketches
    /\ pc = "l_delay"
    /\ clock \in {ClockMod - b : b \in WrapBack}
    /\ currentTime = clock
    /\ lastTime = clock
    /\ sinceLast = 0
    /\ pulseCount = 0
    /\ flowRate = Zero
    /\ totalVolume = Zero
    /\ calibrationFactor = INITIAL_CALIBRATION
    /\ deviceConnected = FALSE
    /\ pCharacteristic = (fw = "ble")
    /\ pulses = 0
    /\ frequency = Zero
    /\ volumeThisInterval = Zero
    /\ attached = TRUE
    /\ intsEnabled = TRUE
    /\ consoleReady = TRUE
    /\ printed = 0
    /\ call = <<>>
    /\ payload = <<>>
    /\ sent = 0
    /\ edges = 0
    /\ dropped = 0
    /\ drained = 0
    /\ drainedSum = 0
    /\ sinceDrain = 0
    /\ windowEdges = 0
    /\ accPulses = 0
    /\ cycles = 0
    /\ jitterUsed = 0
    /\ calls = 0

NextWrap ==
    \/ pulseCounter
    \/ EdgeWhileDetached
    \/ BleLoopTop
    \/ BleLoopSkip
    \/ BleNoInterrupts
    \/ BleReadPulses
    \/ BleClearPulses
    \/ BleInterrupts
    \/ BleCalc
    \/ BleReport
    \/ BleSetLast
    \/ BleDelay
    \/ SerialLoopTop
    \/ SerialLoopSkip
    \/ SerialDetach
    \/ SerialFreq
    \/ SerialVolume
    \/ SerialPrint
    \/ SerialClear
    \/ SerialAttach
    \/ SerialDelay

SpecWrap == InitWrap /\ [][NextWrap]_vars

(***************************************************************************)
(* Properties.                                                             *)
(***************************************************************************)

\* C1: in the BLE firmware every sensor edge is counted in exactly one drain
\* result: at every state the sum of the values the drains have returned plus
\* the current pulseCount equals the number of edges that have occurred.
C1_EveryEdgeInOneDrain ==
    fw = "ble" => drainedSum + pulseCount = edges

\* C1 witness: a drain has returned edges and a further edge has been counted
\* right after it, before the cycle's calculation.
C1_EdgeRightAfterDrain ==
    /\ fw = "ble"
    /\ pc = "l_calc"
    /\ drained > 0
    /\ pulseCount > 0

\* C2: in the serial driver no edge is dropped: every edge that has occurred
\* is in pulseCount or in a drain's result, also when it occurs between the
\* cycle's detachInterrupt and attachInterrupt.
C2_NoEdgeDroppedWhileSampling ==
    IsSerial => drainedSum + pulseCount = edges

\* C3: the drain is a read-and-reset: it returns exactly the number of edges
\* handled since the previous drain (0 when there were none) and leaves
\* pulseCount = 0.
C3_DrainReturnsWindowAndResets ==
    fw = "ble" =>
        /\ pc = "l_clear" => pulses = windowEdges
        /\ pc # "l_clear" => drained = windowEdges
        /\ pc = "l_int" => pulseCount = 0

\* C3 witness: the second drain has just returned the one edge handled since
\* the first drain, which had returned one edge too.
C3_SecondDrainReturnsOne ==
    /\ fw = "ble"
    /\ pc = "l_int"
    /\ cycles = 1
    /\ drained = 1
    /\ drainedSum = 2
    /\ pulseCount = 0

\* C4: setCalibrationFactor rejects every factor <= 0, so calibrationFactor
\* is positive in every reachable state.
C4_CalibrationFactorPositive ==
    FPositive(calibrationFactor)

\* positions inside a sampling cycle where the drain and the accumulation
\* are out of step (one has happened, the other not yet)
MidCycle == {"l_int", "l_calc", "l_print", "l_reset"}

\* C5: outside a cycle's drain-to-accumulate window, totalVolume (liters) is
\* ML_PER_PULSE * (pulses drained since the last reset) / 1000, i.e. the sum
\* of the interval volumes of the cycles run since then.
C5_TotalIsSumOfIntervalVolumes ==
    pc \notin MidCycle => totalVolume = Norm(9 * accPulses, 4 * 1000)

\* C5 witness: two cycles of one pulse each, no reset: 4.5 mL in total.
C5_TwoCyclesAccumulated ==
    /\ pc = "l_delay"
    /\ cycles = 2
    /\ drained = 1
    /\ accPulses = 2
    /\ drainedSum = 2
    /\ totalVolume = <<9, 2000>>

\* C6: a resetTotalVolume() call sets totalVolume to exactly 0 whatever it
\* was and changes none of pulseCount, lastTime, flowRate, calibrationFactor;
\* what is drained in later cycles accumulates from 0.
C6_ResetZeroesTotalOnly ==
    /\ [][(call' = <<"resetTotalVolume">> /\ call # call')
            => /\ totalVolume' = Zero
               /\ UNCHANGED <<pulseCount, lastTime, flowRate, calibrationFactor>>]_vars
    /\ [](call = <<"resetTotalVolume">> => totalVolume = Zero)
    /\ []((pc \notin MidCycle /\ accPulses < drainedSum)
            => totalVolume = Norm(9 * accPulses, 4 * 1000))

\* C6 witness: one pulse drained, a reset, then one more pulse drained: the
\* total is the second interval's 2.25 mL alone.
C6_AccumulatedFromZeroAfterReset ==
    /\ fw = "serial1"
    /\ pc = "l_delay"
    /\ cycles = 2
    /\ drainedSum = 2
    /\ accPulses = 1
    /\ totalVolume = <<9, 4000>>
    /\ flowRate # Zero

\* C7: totalVolume never decreases in a step other than resetTotalVolume(),
\* and it changes only in a cycle's accumulation step or in
\* resetTotalVolume(): edges, idle waits, setCalibrationFactor and the
\* getters leave it unchanged.
C7_TotalVolumeMonotonic ==
    [][/\ (call' = call \/ call' # <<"resetTotalVolume">>)
            => FLeq(totalVolume, totalVolume')
       /\ totalVolume' # totalVolume
            => \/ pc \in {"l_calc", "l_vol"} /\ pc' # pc
               \/ call' = <<"resetTotalVolume">> /\ call' # call]_vars

\* C7 witness: getTotalVolume() called after a cycle accumulated 2.25 mL.
C7_GetterAfterAccumulation ==
    /\ fw = "serial1"
    /\ cycles = 1
    /\ call = <<"getTotalVolume", <<9, 4000>>>>
    /\ totalVolume = <<9, 4000>>

\* positions of a cycle after its frequency is computed, before lastTime moves
AfterFrequency == {"l_report", "l_last", "l_vol", "l_print", "l_reset"}

\* the pulse count of the cycle in progress
CyclePulses == IF fw = "ble" THEN pulses ELSE pulseCount

\* C8: in every sampling cycle frequency = pulses / elapsedSeconds with
\* elapsedSeconds = (currentTime - lastTime) / 1000 when that is positive,
\* and frequency = 0 when it is 0.
C8_FrequencyIsPulsesPerSecond ==
    pc \in AfterFrequency =>
        LET ms == Elapsed(currentTime, lastTime)
        IN  /\ ms > 0 => frequency = Norm(CyclePulses * 1000, ms)
            /\ ms = 0 => frequency = Zero

\* C8 witness: two pulses in 101 ms.
C8_TwoPulsesIn101ms ==
    /\ fw = "ble"
    /\ pc = "l_report"
    /\ pulses = 2
    /\ Elapsed(currentTime, lastTime) = 101
    /\ frequency = <<2000, 101>>

\* C9: the calculation of a cycle yields flowRate = frequency /
\* calibrationFactor and an interval volume of pulses * ML_PER_PULSE mL; with
\* calibrationFactor 5.0, 1000 ms elapsed and 50 pulses it yields 50 Hz,
\* 10 L/min, 112.5 mL, and adds 0.1125 L to totalVolume.
C9_FlowRateAndIntervalVolume ==
    [][(fw = "ble" /\ pc = "l_calc" /\ pc' # pc) =>
        /\ IsFinite(flowRate')
        /\ flowRate'[1] * calibrationFactor[1] * frequency'[2]
             = frequency'[1] * flowRate'[2] * calibrationFactor[2]
        /\ VolumeMilliliters(volumeThisInterval')[1] * 4
             = 9 * pulses * VolumeMilliliters(volumeThisInterval')[2]
        /\ ( /\ pulses = 50
             /\ Elapsed(currentTime, lastTime) = 1000
             /\ calibrationFactor = <<5, 1>> )
           => /\ frequency' = <<50, 1>>
              /\ flowRate' = <<10, 1>>
              /\ VolumeMilliliters(volumeThisInterval') = <<225, 2>>
              /\ totalVolume'[1] * totalVolume[2] * 80
                   = (totalVolume[1] * 80 + 9 * totalVolume[2]) * totalVolume'[2]
      ]_vars

\* C9 witness: a 50-pulse, 1000 ms sample computed after a 30-pulse one:
\* 50 Hz, 10 L/min, 0.1125 L in the interval, 0.18 L in total.
C9_FiftyPulsesInOneSecond ==
    /\ pc = "l_report"
    /\ cycles = 1
    /\ pulses = 50
    /\ accPulses = 80
    /\ Elapsed(currentTime, lastTime) = 1000
    /\ frequency = <<50, 1>>
    /\ flowRate = <<10, 1>>
    /\ volumeThisInterval = <<9, 80>>
    /\ totalVolume = <<9, 50>>

\* C10: a sampling cycle that drains zero pulses computes frequency 0,
\* flowRate 0 (for a positive calibrationFactor) and interval volume 0, and
\* leaves totalVolume unchanged.
C10_ZeroPulsesGiveZeroSample ==
    [][/\ (fw = "ble" /\ pc = "l_calc" /\ pc' # pc /\ pulses = 0)
            => /\ frequency' = Zero
               /\ FPositive(calibrationFactor) => flowRate' = Zero
               /\ volumeThisInterval' = Zero
               /\ totalVolume' = totalVolume
       /\ (IsSerial /\ pc = "l_freq" /\ pc' # pc /\ pulseCount = 0)
            => /\ frequency' = Zero
               /\ FPositive(calibrationFactor) => flowRate' = Zero
       /\ (IsSerial /\ pc = "l_vol" /\ pc' # pc /\ pulseCount = 0)
            => /\ volumeThisInterval' = Zero
               /\ totalVolume' = totalVolume]_vars

\* C10 witness: a cycle with no pulse after a cycle with pulses: the sample
\* is all zero and the total is what the first cycle left.
C10_EmptyCycleAfterFlow ==
    /\ fw = "ble"
    /\ pc = "l_report"
    /\ cycles = 1
    /\ pulses = 0
    /\ frequency = Zero
    /\ flowRate = Zero
    /\ volumeThisInterval = Zero
    /\ totalVolume = <<9, 2000>>

\* what a sampling cycle measures
Measurement == <<pulseCount, pulses, frequency, flowRate, totalVolume,
                 volumeThisInterval, lastTime, currentTime>>

\* C11: in the BLE firmware the sink does not affect the measurement: a
\* connect or disconnect changes deviceConnected alone; the report step, the
\* only one that reads deviceConnected, goes on to lastTime = currentTime
\* with the measurement unchanged whether it notifies or not; and every
\* cycle, notified or not, ends drained, accumulated and with lastTime
\* advanced.
C11_SinkDoesNotAffectMeasurement ==
    /\ [][/\ deviceConnected' # deviceConnected
              => UNCHANGED <<pc, clock, Measurement, payload, sent, counts>>
          /\ (pc = "l_report" /\ pc' # pc)
              => /\ pc' = "l_last"
                 /\ UNCHANGED <<Measurement, clock, counts>>
          /\ (pc = "l_last" /\ pc' # pc)
              => /\ pc' = "l_delay"
                 /\ lastTime' = currentTime
                 /\ cycles' = cycles + 1
          /\ (sent' > sent \/ payload' # payload)
              => UNCHANGED Measurement]_vars
    /\ [](pc = "l_delay" =>
            /\ lastTime = currentTime
            /\ pulses = drained
            /\ volumeThisInterval = VolumeLiters(pulses)
            /\ totalVolume = Norm(9 * accPulses, 4 * 1000))

\* C11 witness: a cycle notified to a connected peer, then, the peer gone, a
\* second cycle that drained a pulse, accumulated it and advanced lastTime
\* without notifying.
C11_CycleWithoutPeerAfterNotifiedCycle ==
    /\ fw = "ble"
    /\ pc = "l_delay"
    /\ cycles = 2
    /\ payload # <<>>
    /\ payload[1] = 1
    /\ ~deviceConnected
    /\ sent = 0
    /\ drained = 1
    /\ accPulses = 2
    /\ totalVolume = <<9, 2000>>
    /\ lastTime = currentTime

\* C12: no operation blocks for ever: from startup, with the main context
\* scheduled fairly and the clock advancing, a sampling cycle eventually
\* completes, also when the console is never attached and no peer connects.
C12_SamplingCycleEventuallyOccurs ==
    <>(cycles > 0)

\* CALC_INTERVAL of the sketch that runs
CalcInterval ==
    IF fw = "ble" THEN BLE_CALC_INTERVAL ELSE SERIAL_CALC_INTERVAL

\* positions inside a sampling cycle, before lastTime is assigned
InCycle == {"l_noint", "l_read", "l_clear", "l_int", "l_calc", "l_report",
            "l_last", "l_detach", "l_freq", "l_vol", "l_print", "l_reset"}

\* positions of the iteration after the cycle's assignment to lastTime
AfterCycle == {"l_attach", "l_delay"}

\* C13: a sampling cycle runs only when currentTime - lastTime >=
\* CALC_INTERVAL, with currentTime the clock read at the start of the
\* iteration, and ends with lastTime = that currentTime; an iteration whose
\* elapsed time is below CALC_INTERVAL is a wait that changes none of
\* pulseCount, lastTime, flowRate, totalVolume.
C13_CycleOnlyWhenIntervalElapsed ==
    /\ [](pc \in InCycle => Elapsed(currentTime, lastTime) >= CalcInterval)
    /\ [](pc \in AfterCycle => lastTime = currentTime)
    /\ [][/\ (pc = "l_top" /\ pc' \in InCycle)
              => /\ currentTime' = clock
                 /\ Elapsed(clock, lastTime) >= CalcInterval
          /\ (pc = "l_top" /\ pc' = "l_top" /\ clock' # clock)
              => /\ Elapsed(clock, lastTime) < CalcInterval
                 /\ UNCHANGED <<pulseCount, lastTime, flowRate, totalVolume>>
          /\ (lastTime' # lastTime /\ pc \in InCycle)
              => lastTime' = currentTime]_vars

\* C13 witness: after a cycle an edge was counted and an iteration 50 ms
\* after the cycle skipped the calculation; 100 ms have now elapsed.
C13_SkippedIterationAfterCycle ==
    /\ fw = "ble"
    /\ pc = "l_top"
    /\ cycles = 1
    /\ pulseCount = 1
    /\ currentTime = (lastTime + BLE_LOOP_DELAY) % ClockMod
    /\ Elapsed(clock, lastTime) = BLE_CALC_INTERVAL

\* C14: whenever a rate is computed the divisor is positive: at the division
\* of every cycle of the three loops currentTime - lastTime > 0, so
\* elapsedSeconds > 0 and the frequency that results is finite, also in the
\* part_000 loops, which divide without a test.
C14_ElapsedPositiveWhenRateComputed ==
    /\ pc \in {"l_calc", "l_freq"}
        => /\ Elapsed(currentTime, lastTime) > 0
           /\ FPositive(ElapsedSeconds(currentTime, lastTime))
    /\ pc \in AfterFrequency => IsFinite(frequency)

\* C14 witness: the second part_000 sketch has divided two pulses by one
\* second.
C14_SerialDivisionByOneSecond ==
    /\ fw = "serial2"
    /\ pc = "l_vol"
    /\ pulseCount = 2
    /\ Elapsed(currentTime, lastTime) = 1000
    /\ frequency = <<2, 1>>

\* the idle wait at the end of loop() of the sketch that runs
LoopDelay ==
    IF fw = "ble" THEN BLE_LOOP_DELAY ELSE SERIAL_LOOP_DELAY

\* C15: the sampler misses an interval by less than one idle-wait quantum:
\* with a loop body that takes no time, every sampling cycle observes
\* CALC_INTERVAL <= currentTime - lastTime < CALC_INTERVAL + quantum when
\* every delay() is exact (jitterUsed = 0), the bound growing by the
\* milliseconds the delay() calls overran otherwise.
C15_DriftBelowOneQuantum ==
    pc \in InCycle =>
        /\ CalcInterval <= Elapsed(currentTime, lastTime)
        /\ Elapsed(currentTime, lastTime) < CalcInterval + LoopDelay + jitterUsed

\* C15 witness: with exact delays the second cycle of flow_control.ino runs
\* two waits of 50 ms after the first: 100 ms elapsed.
C15_SecondCycleOnTime ==
    /\ fw = "ble"
    /\ pc = "l_calc"
    /\ cycles = 1
    /\ jitterUsed = 0
    /\ Elapsed(currentTime, lastTime) = 100

\* positions of a cycle after flowRate is assigned
AfterFlowRate == {"l_report", "l_last", "l_vol", "l_print", "l_reset"}

\* C16: a calibration change takes effect at calculation time: the flowRate
\* a cycle produces is its frequency divided by the value calibrationFactor
\* has at the cycle's division, whenever since the previous cycle it was
\* set; and a setCalibrationFactor call stores its argument and leaves the
\* stored flowRate and totalVolume as they are.
C16_CalibrationReadAtCalculation ==
    /\ [](pc \in AfterFlowRate => flowRate = FDiv(frequency, calibrationFactor))
    /\ [][(call' # call /\ call' # <<>> /\ call'[1] = "setCalibrationFactor")
              => /\ calibrationFactor' = call'[2]
                 /\ UNCHANGED <<flowRate, totalVolume, lastTime, pulseCount>>]_vars

\* C16 witness: one pulse per second in two intervals, the factor set to 10
\* before the second cycle: that cycle's flowRate is 1 Hz / 10.
C16_SecondSampleWithNewFactor ==
    /\ fw = "serial1"
    /\ pc = "l_print"
    /\ cycles = 1
    /\ pulseCount = 1
    /\ drained = 1
    /\ calibrationFactor = <<10, 1>>
    /\ frequency = <<1, 1>>
    /\ flowRate = <<1, 10>>
    /\ totalVolume = <<9, 2000>>

\* C17: in the BLE firmware a sampling cycle sends at most one notification,
\* and exactly one if and only if deviceConnected holds (and the
\* characteristic exists) at the cycle's report; its payload is the five
\* fields pulses, frequency (2 decimals), flowRate (3), interval volume in
\* mL (2), totalVolume (4) of the sample just computed, the total including
\* this interval; nothing is sent outside a cycle's report.
C17_OneNotificationPerCycle ==
    /\ [](sent <= 1)
    /\ [][/\ (pc = "l_report" /\ pc' # pc)
              => IF deviceConnected /\ pCharacteristic
                 THEN /\ sent' = sent + 1
                      /\ payload' =
                           <<pulses, Fixed(frequency, 2), Fixed(flowRate, 3),
                             Fixed(VolumeMilliliters(volumeThisInterval), 2),
                             Fixed(totalVolume, 4)>>
                 ELSE UNCHANGED <<sent, payload>>
          /\ (sent' > sent \/ payload' # payload) => pc = "l_report"]_vars
    /\ []((pc = "l_last" /\ sent = 1) =>
            LET ms == Elapsed(currentTime, lastTime)
            IN  /\ Len(payload) = 5
                /\ payload[1] = drained
                /\ payload[2] = Fixed(Norm(drained * 1000, ms), 2)
                /\ payload[3] = Fixed(FDiv(Norm(drained * 1000, ms),
                                           calibrationFactor), 3)
                /\ payload[4] = Fixed(Norm(9 * drained, 4), 2)
                /\ payload[5] = Fixed(Norm(9 * accPulses, 4 * 1000), 4))

\* C17 witness: the second cycle, one pulse in 100 ms after one pulse in the
\* first, notified as 1,10.00,2.000,2.25,0.0045.
C17_SecondSampleNotified ==
    /\ fw = "ble"
    /\ pc = "l_last"
    /\ cycles = 1
    /\ sent = 1
    /\ payload = <<1, <<2, 1000>>, <<3, 2000>>, <<2, 225>>, <<4, 45>>>>

\* what the sketch itself holds: its globals, loop()'s locals, the handler's
\* attachment, the position of the main context and the clock
ProgramState == <<pc, pulseCount, globals, locals, hwVars, bleVars, clock>>

\* C18: the pull accessors return the last computed sample and modify
\* nothing: getFlowRate() returns flowRate and getTotalVolume() returns
\* totalVolume, as they are at the call; flowRate is 0 before the first
\* cycle's division and is assigned by a cycle's division only, so between
\* two cycles it is what the most recent cycle computed.
C18_AccessorsReturnLastSample ==
    /\ [][/\ (call' # call /\ call' # <<>> /\ call'[1] = "getFlowRate")
              => /\ call'[2] = flowRate
                 /\ UNCHANGED ProgramState
          /\ (call' # call /\ call' # <<>> /\ call'[1] = "getTotalVolume")
              => /\ call'[2] = totalVolume
                 /\ UNCHANGED ProgramState
          /\ flowRate' # flowRate
              => /\ pc \in {"l_calc", "l_freq"}
                 /\ flowRate' = FDiv(frequency', calibrationFactor)]_vars
    /\ []((cycles = 0 /\ pc \notin AfterFlowRate) => flowRate = Zero)
    /\ []((call # <<>> /\ call[1] = "getFlowRate") => call[2] = flowRate)

\* C18 witness: getFlowRate() called after a cycle that saw one pulse in one
\* second with the factor 5 returns 0.2.
C18_FlowRateReadAfterCycle ==
    /\ fw = "serial1"
    /\ pc = "l_top"
    /\ cycles = 1
    /\ drained = 1
    /\ flowRate = <<1, 5>>
    /\ call = <<"getFlowRate", <<1, 5>>>>

\* C19: every sample is consistent: in one sampling cycle the pulse count
\* the frequency was computed from, the one the interval volume was computed
\* from, the one reported and the one cleared from the counter are the same
\* value, wherever edges fall in the cycle.
C19_SampleUsesOnePulseCount ==
    /\ (fw = "ble" /\ pc = "l_last") =>
            /\ drained = pulses
            /\ frequency = Norm(pulses * 1000, Elapsed(currentTime, lastTime))
            /\ volumeThisInterval = Norm(9 * pulses, 4 * 1000)
            /\ printed = pulses
            /\ sent = 1 => payload[1] = pulses
    /\ (IsSerial /\ pc = "l_reset") =>
            /\ frequency = Norm(pulseCount * 1000, Elapsed(currentTime, lastTime))
            /\ volumeThisInterval = Norm(9 * pulseCount, 4 * 1000)
            /\ printed = pulseCount
    /\ (IsSerial /\ pc = "l_attach") =>
            /\ drained = printed
            /\ volumeThisInterval = Norm(9 * drained, 4 * 1000)
            /\ pulseCount = 0

\* C19 witness: a part_000 cycle over one counted pulse, with a second edge
\* falling inside the cycle: frequency, volume, report and clear all used 1.
C19_EdgeInsideSerialCycle ==
    /\ fw = "serial1"
    /\ pc = "l_attach"
    /\ edges = 2
    /\ dropped = 1
    /\ drained = 1
    /\ printed = 1
    /\ frequency # Zero
    /\ volumeThisInterval = <<9, 4000>>

\* C20: the guard is right across the wrap of the millisecond clock: with
\* the unsigned subtraction, an iteration enters the cycle exactly when at
\* least CALC_INTERVAL real milliseconds have passed since the read that
\* lastTime holds, also when the clock wrapped in between, and the elapsed
\* time the cycle divides by is the real elapsed time.
C20_GuardCorrectAcrossWrap ==
    /\ [](pc \in InCycle => Elapsed(currentTime, lastTime) = sinceLast)
    /\ [](pc \in AfterFrequency
            => frequency = Norm(CyclePulses * 1000, sinceLast))
    /\ [][/\ (pc = "l_top" /\ pc' \in InCycle)
              => sinceLast >= CalcInterval
          /\ (pc = "l_top" /\ pc' = "l_top" /\ clock' # clock)
              => sinceLast < CalcInterval]_vars

\* C20 witness: a part_000 cycle whose currentTime lies beyond the wrap and
\* whose lastTime before it: 1000 ms elapsed, two pulses, 2 Hz.
C20_CycleAfterWrap ==
    /\ fw = "serial2"
    /\ pc = "l_vol"
    /\ currentTime < lastTime
    /\ sinceLast = 1000
    /\ pulseCount = 2
    /\ frequency = <<2, 1>>

=============================================================================
